---- MODULE Spec2Model ----
(***************************************************************************)
(* Model of the declaration query of package gosource (DeclPosition) and   *)
(* of the collaborators it drives: the position index (Info), the node     *)
(* locator (PosNode), the resolver (Resolver) and the span refinement done *)
(* at the end of DeclPosition.                                             *)
(*                                                                         *)
(* Source text is a sequence of one-byte tokens of a small Go-like         *)
(* language:                                                               *)
(*    File     ::= "p" Import* TopDecl*                                    *)
(*    Import   ::= "i" Ident                                               *)
(*    TopDecl  ::= FuncDecl | TypeSpec | ValueSpec                         *)
(*    FuncDecl ::= "f" Ident Block                                         *)
(*    TypeSpec ::= "t" Ident "{" Field* "}"          (a struct type)       *)
(*    Field    ::= Ident+ ";"                                              *)
(*    ValueSpec::= "v" Ident+ ";"                    (var a, b)            *)
(*    Block    ::= "{" Stmt* "}"                                           *)
(*    Stmt     ::= ValueSpec | TypeSpec | Block | Assign | Use             *)
(*    Assign   ::= ":" Ident+ ";"                    (a, b := ...)         *)
(*    Use      ::= Ident | Ident "." Ident           (name, field access)  *)
(* Blanks (" " and "\n") separate tokens and belong to no token.           *)
(***************************************************************************)
EXTENDS Integers, Sequences, FiniteSets, TLC

\* ------------------------------------------------------------------------
\* Bounds
\* ------------------------------------------------------------------------

\* Longest generated source text (every text over GenAlphabet up to it).
MaxLen == 4

\* Longest generated function body, in statements.
MaxStmts == 4

\* How far below 0 and above the file size a queried offset may lie.
MaxOver == 2

\* ------------------------------------------------------------------------
\* Lexical classes
\* ------------------------------------------------------------------------

Letters == {"a", "b", "c", "x", "y", "F", "G", "T", "N", "M"}

IsSpace(ch) == ch \in {" ", "\n"}

IsLetter(ch) == ch \in Letters

\* The token at index i (1-based) of text c, "EOF" past the end.
Tok(c, i) == IF i >= 1 /\ i <= Len(c) THEN c[i] ELSE "EOF"

RECURSIVE SkipSpace(_, _)
SkipSpace(c, i) ==
    IF i <= Len(c) /\ IsSpace(c[i]) THEN SkipSpace(c, i + 1) ELSE i

\* ------------------------------------------------------------------------
\* Syntax trees: one flat arena of nodes per file; a node refers to its
\* parent and children by index; 0 is "no node".  pos/end are byte offsets
\* local to the file, the span is [pos, end).
\* ------------------------------------------------------------------------

NewNode(kind, pos, end, parent, name) ==
    [kind |-> kind, pos |-> pos, end |-> end, parent |-> parent,
     name |-> name, kids |-> <<>>]

\* The parser is a pushdown automaton.  Its state: ok (no syntax error so
\* far), done (end of text reached at the top level), i (index of the next
\* token), a (the arena), stack (the open nodes, innermost last; body tells
\* whether the opening brace of a TypeSpec, or the first declaration of a
\* File, has been seen).

Top(st) == st.stack[Len(st.stack)]

Fail(st) == [st EXCEPT !.ok = FALSE]

\* Consume the token at st.i and the blanks after it.
Advance(c, st) == [st EXCEPT !.i = SkipSpace(c, st.i + 1)]

\* A new node for the token at st.i, child of the innermost open node.
Child(st, kind, name) ==
    LET n == Len(st.a) + 1
        p == Top(st).n
    IN  [st EXCEPT !.a = [Append(st.a, NewNode(kind, st.i - 1, st.i, p, name))
                             EXCEPT ![p].kids = Append(@, n)]]

\* Open a node at the token st.i and consume the token.
Open(c, st, kind) ==
    LET s1 == Child(st, kind, "")
    IN  Advance(c, [s1 EXCEPT !.stack = Append(@, [n |-> Len(s1.a), body |-> FALSE])])

\* Open a Field at the identifier st.i, its first name.
OpenField(c, st) ==
    LET s1 == Child(st, "Field", "")
        s2 == [s1 EXCEPT !.stack = Append(@, [n |-> Len(s1.a), body |-> FALSE])]
    IN  Advance(c, Child(s2, "Ident", c[st.i]))

\* The identifier at st.i, child of the innermost open node.
AddIdent(c, st) == Advance(c, Child(st, "Ident", c[st.i]))

\* The token at st.i ends the innermost open node; a FuncDecl ends with its
\* body.
Close(c, st) ==
    LET n   == Top(st).n
        s1  == [st EXCEPT !.a[n].end = st.i,
                          !.stack = SubSeq(@, 1, Len(@) - 1)]
        up  == Top(s1).n
    IN  IF st.a[n].kind = "BlockStmt" /\ st.a[up].kind = "FuncDecl"
        THEN Advance(c, [s1 EXCEPT !.a[up].end = st.i,
                                   !.stack = SubSeq(@, 1, Len(@) - 1)])
        ELSE Advance(c, s1)

\* Ident | Ident "." Ident at st.i, in a block.
Use(c, st) ==
    LET j == SkipSpace(c, st.i + 1)
        k == SkipSpace(c, j + 1)
        n == Len(st.a) + 1
        p == Top(st).n
    IN  IF Tok(c, j) # "." THEN AddIdent(c, st)
        ELSE IF ~IsLetter(Tok(c, k)) THEN Fail(st)
        ELSE [st EXCEPT
                !.a = [st.a \o <<NewNode("SelectorExpr", st.i - 1, k, p, ""),
                                 NewNode("Ident", st.i - 1, st.i, n, c[st.i]),
                                 NewNode("Ident", k - 1, k, n, c[k])>>
                          EXCEPT ![p].kids = Append(@, n),
                                 ![n].kids = <<n + 1, n + 2>>],
                !.i = SkipSpace(c, k + 1)]

\* One step of the parser: the token at st.i against the innermost open node.
Step(c, st) ==
    LET tk   == Tok(c, st.i)
        top  == Top(st)
        kind == st.a[top.n].kind
        nk   == Len(st.a[top.n].kids)
    IN  CASE kind = "File" ->
               IF tk = "EOF" THEN [st EXCEPT !.done = TRUE]
               ELSE IF tk = "i" /\ ~top.body THEN Open(c, st, "ImportSpec")
               ELSE IF tk \in {"f", "t", "v"}
               THEN Open(c, [st EXCEPT !.stack[Len(st.stack)].body = TRUE],
                         IF tk = "f" THEN "FuncDecl"
                         ELSE IF tk = "t" THEN "TypeSpec" ELSE "ValueSpec")
               ELSE Fail(st)
          [] kind = "ImportSpec" ->
               IF IsLetter(tk) THEN Close(c, Child(st, "Ident", tk)) ELSE Fail(st)
          [] kind = "FuncDecl" ->
               IF nk = 0 /\ IsLetter(tk) THEN AddIdent(c, st)
               ELSE IF nk = 1 /\ tk = "{" THEN Open(c, st, "BlockStmt")
               ELSE Fail(st)
          [] kind = "TypeSpec" ->
               IF nk = 0 /\ IsLetter(tk) THEN AddIdent(c, st)
               ELSE IF nk = 1 /\ ~top.body /\ tk = "{"
               THEN Advance(c, [st EXCEPT !.stack[Len(st.stack)].body = TRUE])
               ELSE IF top.body /\ IsLetter(tk) THEN OpenField(c, st)
               ELSE IF top.body /\ tk = "}" THEN Close(c, st)
               ELSE Fail(st)
          [] kind \in {"Field", "ValueSpec", "AssignStmt"} ->
               IF IsLetter(tk) THEN AddIdent(c, st)
               ELSE IF nk >= 1 /\ tk = ";" THEN Close(c, st)
               ELSE Fail(st)
          [] kind = "BlockStmt" ->
               IF tk \in {"v", ":", "t", "{"}
               THEN Open(c, st, IF tk = "v" THEN "ValueSpec"
                                ELSE IF tk = ":" THEN "AssignStmt"
                                ELSE IF tk = "t" THEN "TypeSpec" ELSE "BlockStmt")
               ELSE IF IsLetter(tk) THEN Use(c, st)
               ELSE IF tk = "}" THEN Close(c, st)
               ELSE Fail(st)
          [] OTHER -> Fail(st)

RECURSIVE Run(_, _)
Run(c, st) == IF ~st.ok \/ st.done THEN st ELSE Run(c, Step(c, st))

\* The whole file.  ok is FALSE when the text is not a File; the root is
\* node 1, its pos is the offset of the package keyword, a is its arena.
Parse(c) ==
    LET i0 == SkipSpace(c, 1)
    IN  IF Tok(c, i0) # "p"
        THEN [ok |-> FALSE, done |-> FALSE, i |-> i0, a |-> <<>>, stack |-> <<>>]
        ELSE Run(c, [ok    |-> TRUE,
                     done  |-> FALSE,
                     i     |-> SkipSpace(c, i0 + 1),
                     a     |-> <<NewNode("File", i0 - 1, Len(c), 0, "")>>,
                     stack |-> <<[n |-> 1, body |-> FALSE]>>])

\* ------------------------------------------------------------------------
\* Position index (Info and its token.FileSet)
\* ------------------------------------------------------------------------

\* A reference to a node: file index in the Info and node index in that
\* file's arena.  NilRef is the nil node.
NilRef == [f |-> 0, n |-> 0]

Ref(f, n) == [f |-> f, n |-> n]

\* A token.Position; NoPosition is the nil *token.Position.
NoPosition == [Filename |-> "", Offset |-> -1, Line |-> 0, Column |-> 0]

\* Base of the next file added to a file set: one past the previous file's
\* range [base, base+size]; the first base is 1.
NextBase(inf) ==
    IF Len(inf) = 0 THEN 1 ELSE inf[Len(inf)].base + inf[Len(inf)].size + 1

\* addFile: the file gets a slice of the global offset space sized to its
\* content and is parsed; ok is FALSE when the content cannot be parsed.
AddFile(inf, name, text) ==
    LET r == Parse(text)
    IN  Append(inf, [name |-> name, src |-> text, base |-> NextBase(inf),
                     size |-> Len(text), ok |-> r.ok,
                     nodes |-> IF r.ok THEN r.a ELSE <<>>])

\* FileSet.File(pos): the index of the file whose range holds pos, 0 if none.
FSetFile(inf, p) ==
    LET S == {k \in 1..Len(inf) :
                 inf[k].base <= p /\ p <= inf[k].base + inf[k].size}
    IN  IF S = {} THEN 0 ELSE CHOOSE k \in S : TRUE

Node(inf, r) == inf[r.f].nodes[r.n]

\* Global positions of a node.
NodePos(inf, r) == inf[r.f].base + Node(inf, r).pos

NodeEnd(inf, r) == inf[r.f].base + Node(inf, r).end

\* Number of newlines among the first n bytes of text c.
RECURSIVE CountNewlines(_, _)
CountNewlines(c, n) ==
    IF n <= 0 THEN 0
    ELSE CountNewlines(c, n - 1) + (IF c[n] = "\n" THEN 1 ELSE 0)

\* Offset of the first byte of the line holding offset off.
RECURSIVE LineStart(_, _)
LineStart(c, off) ==
    IF off <= 0 THEN 0
    ELSE IF c[off] = "\n" THEN off
    ELSE LineStart(c, off - 1)

\* FileSet.Position(pos): file name, byte offset, 1-based line and column.
Position(inf, p) ==
    LET k == FSetFile(inf, p)
    IN  IF k = 0 THEN NoPosition
        ELSE LET off == p - inf[k].base
             IN  [Filename |-> inf[k].name, Offset |-> off,
                  Line     |-> 1 + CountNewlines(inf[k].src, off),
                  Column   |-> off - LineStart(inf[k].src, off) + 1]

\* clampOffset: an out-of-range offset goes to the nearest boundary of the
\* file; the result is a global position.
SafeOffsetPos(inf, tf, offset) ==
    inf[tf].base + (IF offset < 0 THEN 0
                    ELSE IF offset > inf[tf].size THEN inf[tf].size
                    ELSE offset)

\* nodeAt: the deepest node whose [pos, end) holds the offset; the root's
\* span is the whole range of the file.  Children follow their parent in
\* the arena, so the deepest holder is the last one.  NilRef when pos is in
\* no file or the file has no tree.
PosNode(inf, p) ==
    LET k == FSetFile(inf, p)
    IN  IF k = 0 \/ ~inf[k].ok THEN NilRef
        ELSE LET off == p - inf[k].base
                 S   == {n \in 1..Len(inf[k].nodes) :
                            \/ n = 1
                            \/ /\ inf[k].nodes[n].pos <= off
                               /\ off < inf[k].nodes[n].end}
                 d   == CHOOSE n \in S : \A m \in S : m <= n
             IN  Ref(k, d)

\* ------------------------------------------------------------------------
\* Scopes and the resolver
\* ------------------------------------------------------------------------

Kids(nodes, n) == nodes[n].kids

\* The names bound by the identifiers that are children of node n.
KidNames(nodes, n) == {nodes[Kids(nodes, n)[j]].name : j \in 1..Len(Kids(nodes, n))}

\* The name of a FuncDecl, TypeSpec or ImportSpec.
DeclName(nodes, n) == nodes[Kids(nodes, n)[1]].name

\* The elements of a sequence.
Range(seq) == {seq[j] : j \in 1..Len(seq)}

\* Mutant of FirstOf: the last element that is in ok.
LastOf(seq, ok) ==
    LET S == {j \in 1..Len(seq) : seq[j] \in ok}
    IN  IF S = {} THEN 0 ELSE seq[CHOOSE j \in S : \A m \in S : j >= m]

\* The first element of a sequence of node indices that is in the set ok, 0
\* if none is.
FirstOf(seq, ok) ==
    LET S == {j \in 1..Len(seq) : seq[j] \in ok}
    IN  IF S = {} THEN 0 ELSE seq[CHOOSE j \in S : \A m \in S : j <= m]

\* Mutant of BlockDecl: a value declaration is in the scope of its block
\* whatever its place.
RECURSIVE BlockDeclAnyOrder(_, _, _, _)
BlockDeclAnyOrder(nodes, b, name, q) ==
    LET Declares(k) ==
          \/ /\ nodes[k].kind = "TypeSpec"
             /\ DeclName(nodes, k) = name
          \/ /\ nodes[k].kind = "ValueSpec"
             /\ name \in KidNames(nodes, k)
          \/ /\ nodes[k].kind = "AssignStmt"
             /\ nodes[k].end <= q
             /\ name \in KidNames(nodes, k)
             /\ BlockDeclAnyOrder(nodes, b, name, nodes[k].pos) = 0
    IN  FirstOf(Kids(nodes, b), {kk \in Range(Kids(nodes, b)) : Declares(kk)})

\* The block scope of block b as seen from offset q: the node of b that
\* declares name, 0 if none.  Type declarations are in the scope whatever
\* their place; a value declaration or a short assignment is in it only if it
\* ends at or before q; a short assignment declares name only if name is not
\* already in the scope of b at the assignment.  The first declaration in
\* source order wins.
RECURSIVE BlockDecl(_, _, _, _)
BlockDecl(nodes, b, name, q) ==
    LET Declares(k) ==
          \/ /\ nodes[k].kind = "TypeSpec"
             /\ DeclName(nodes, k) = name
          \/ /\ nodes[k].kind = "ValueSpec"
             /\ nodes[k].end <= q
             /\ name \in KidNames(nodes, k)
          \/ /\ nodes[k].kind = "AssignStmt"
             /\ nodes[k].end <= q
             /\ name \in KidNames(nodes, k)
             /\ BlockDecl(nodes, b, name, nodes[k].pos) = 0
    IN  FirstOf(Kids(nodes, b), {kk \in Range(Kids(nodes, b)) : Declares(kk)})

\* A left-hand name of a short assignment is new when the scope of the
\* assignment's block does not hold it at the assignment.
IsNewName(nodes, assign, name) ==
    BlockDecl(nodes, nodes[assign].parent, name, nodes[assign].pos) = 0

\* Declaring occurrence: the name of a function or type declaration, a name
\* of a grouped value declaration or of a field declaration, a new name of
\* a short assignment.
IsDeclaring(nodes, n) ==
    LET p == nodes[n].parent
    IN  /\ p # 0
        /\ \/ nodes[p].kind \in {"FuncDecl", "TypeSpec"} /\ Kids(nodes, p)[1] = n
           \/ nodes[p].kind \in {"ValueSpec", "Field"}
           \/ nodes[p].kind = "AssignStmt" /\ IsNewName(nodes, p, nodes[n].name)

\* The field name of a field access.
IsFieldOfAccess(nodes, n) ==
    LET p == nodes[n].parent
    IN  p # 0 /\ nodes[p].kind = "SelectorExpr" /\ Kids(nodes, p)[2] = n

\* Mutant of BlockScopesDecl: the scopes are scanned outermost first.
RECURSIVE BlockScopesDeclOuterFirst(_, _, _, _)
BlockScopesDeclOuterFirst(nodes, n, name, q) ==
    LET p == nodes[n].parent
    IN  IF p = 0 THEN 0
        ELSE IF BlockScopesDeclOuterFirst(nodes, p, name, q) # 0
        THEN BlockScopesDeclOuterFirst(nodes, p, name, q)
        ELSE IF nodes[p].kind = "BlockStmt" THEN BlockDecl(nodes, p, name, q)
        ELSE 0

\* Block scopes enclosing node n, innermost first: the declaring node of the
\* first one that holds name, 0 if none does.
RECURSIVE BlockScopesDecl(_, _, _, _)
BlockScopesDecl(nodes, n, name, q) ==
    LET p == nodes[n].parent
    IN  IF p = 0 THEN 0
        ELSE IF nodes[p].kind = "BlockStmt" /\ BlockDecl(nodes, p, name, q) # 0
        THEN BlockDecl(nodes, p, name, q)
        ELSE BlockScopesDecl(nodes, p, name, q)

\* File scope: the imports of the file.
FileScopeDecl(nodes, name) ==
    LET Declares(k) == nodes[k].kind = "ImportSpec" /\ DeclName(nodes, k) = name
    IN  FirstOf(Kids(nodes, 1), {kk \in Range(Kids(nodes, 1)) : Declares(kk)})

\* The top-level declaration of name in one file, 0 if none.
TopLevelDecl(nodes, name) ==
    LET Declares(k) ==
          \/ nodes[k].kind \in {"FuncDecl", "TypeSpec"} /\ DeclName(nodes, k) = name
          \/ nodes[k].kind = "ValueSpec" /\ name \in KidNames(nodes, k)
    IN  FirstOf(Kids(nodes, 1), {kk \in Range(Kids(nodes, 1)) : Declares(kk)})

\* Package scope: the union of the top-level declarations of every parsed
\* file of the package, the first file that declares the name first.
PackageScopeDecl(inf, name) ==
    LET S == {k \in 1..Len(inf) : inf[k].ok /\ TopLevelDecl(inf[k].nodes, name) # 0}
    IN  IF S = {} THEN NilRef
        ELSE LET k == CHOOSE k \in S : \A m \in S : k <= m
             IN  Ref(k, TopLevelDecl(inf[k].nodes, name))

\* The field declaration of name in one file's package-level struct types.
StructFieldDecl(nodes, name) ==
    LET IsField(k) == nodes[k].kind = "Field" /\ name \in KidNames(nodes, k)
        HasField(t) == nodes[t].kind = "TypeSpec"
                       /\ FirstOf(Kids(nodes, t), {kk \in Range(Kids(nodes, t)) : IsField(kk)}) # 0
        t == FirstOf(Kids(nodes, 1), {kk \in Range(Kids(nodes, 1)) : HasField(kk)})
    IN  IF t = 0 THEN 0 ELSE FirstOf(Kids(nodes, t), {kk \in Range(Kids(nodes, t)) : IsField(kk)})

\* The field an access names: the field declaration with that name in the
\* field list of a struct type of the package.
FieldDecl(inf, name) ==
    LET S == {k \in 1..Len(inf) : inf[k].ok /\ StructFieldDecl(inf[k].nodes, name) # 0}
    IN  IF S = {} THEN NilRef
        ELSE LET k == CHOOSE k \in S : \A m \in S : k <= m
             IN  Ref(k, StructFieldDecl(inf[k].nodes, name))

\* Scopes enclosing the identifier, innermost to outermost: block scopes,
\* file scope, package scope.  NilRef when none holds the name.
ScopeChainDecl(inf, id_) ==
    LET nodes == inf[id_.f].nodes
        name  == nodes[id_.n].name
        b     == BlockScopesDecl(nodes, id_.n, name, nodes[id_.n].pos)
        f     == FileScopeDecl(nodes, name)
    IN  IF b # 0 THEN Ref(id_.f, b)
        ELSE IF f # 0 THEN Ref(id_.f, f)
        ELSE PackageScopeDecl(inf, name)

\* resolveDeclaration
ResolveDecl(inf, id_) ==
    LET nodes == inf[id_.f].nodes
    IN  IF IsDeclaring(nodes, id_.n) THEN Ref(id_.f, nodes[id_.n].parent)
        ELSE IF IsFieldOfAccess(nodes, id_.n) THEN FieldDecl(inf, nodes[id_.n].name)
        ELSE ScopeChainDecl(inf, id_)

\* NewResolver: the other files of the package directory join the Info.
RECURSIVE AddFiles(_, _)
AddFiles(inf, files) ==
    IF files = <<>> THEN inf
    ELSE AddFiles(AddFile(inf, Head(files).name, Head(files).src), Tail(files))

\* IdAssignStmtRhs: the 0-based index of the left-hand identifier of the
\* assignment t that has the name of id, -1 if none has.
IdAssignStmtRhs(inf, id_, t) ==
    LET lhs == Kids(inf[t.f].nodes, t.n)
        S   == {j \in 1..Len(lhs) :
                   inf[t.f].nodes[lhs[j]].name = Node(inf, id_).name}
    IN  IF S = {} THEN -1 ELSE (CHOOSE j \in S : \A m \in S : j <= m) - 1

\* ------------------------------------------------------------------------
\* Inputs
\* ------------------------------------------------------------------------

\* func F: var x at three depths, x used at each depth, y undeclared
\*   pfF{vx;{vx;{vx;x}x}x y}
SrcShadow ==
    <<"p", "f", "F", "{", "v", "x", ";", "{", "v", "x", ";", "{", "v", "x", ";", "x", "}", "x", "}", "x", " ", "y", "}">>

\* a := 1; a, b := 2, 3; then a and b used
\*   pfF{:a;\n:ab;a b}
SrcShort ==
    <<"p", "f", "F", "{", ":", "a", ";", "\n", ":", "a", "b", ";", "a", " ", "b", "}">>

\* type T struct{a, N}; x.N and x.M
\*   ptT{aN;}\nfF{vx;x.N x.M}
SrcField ==
    <<"p", "t", "T", "{", "a", "N", ";", "}", "\n", "f", "F", "{", "v", "x", ";", "x", ".", "N", " ", "x", ".", "M", "}">>

\* uses G, y, T declared in other files of the package
\*   p fF{G y T{vy;y}}
SrcPkg ==
    <<"p", " ", "f", "F", "{", "G", " ", "y", " ", "T", "{", "v", "y", ";", "y", "}", "}">>

\* import x; x used; c undeclared; var b, b
\*   pix fF{x c}vb b;
SrcImport ==
    <<"p", "i", "x", " ", "f", "F", "{", "x", " ", "c", "}", "v", "b", " ", "b", ";">>

\* blanks before and between tokens
\*   p\n fF {\n vx; x }
SrcBlank ==
    <<"p", "\n", " ", "f", "F", " ", "{", "\n", " ", "v", "x", ";", " ", "x", " ", "}">>

\* x used before the block's own var x; type T declared after its use
\*   pfF{x T vx;tT{}x}vx;
SrcOrder ==
    <<"p", "f", "F", "{", "x", " ", "T", " ", "v", "x", ";", "t", "T", "{", "}", "x", "}", "v", "x", ";">>

\* unbalanced braces
\*   pfF{vx;{x}
SrcBrace ==
    <<"p", "f", "F", "{", "v", "x", ";", "{", "x", "}">>

\* unbalanced braces
\*   pfF{x}}
SrcBrace2 ==
    <<"p", "f", "F", "{", "x", "}", "}">>

\* package p; func F() { x }; var x; var x
\* The top level declares x twice.
SrcDup ==
    <<"p", "f", "F", "{", "x", "}", "v", "x", ";", "v", "x", ";">>

\* file b.go: func G; var y
\*   pfG{}vy;
SrcB ==
    <<"p", "f", "G", "{", "}", "v", "y", ";">>

\* file c.go: type T; var y; func G
\*   p tT{N;}vy;fG{}
SrcC ==
    <<"p", " ", "t", "T", "{", "N", ";", "}", "v", "y", ";", "f", "G", "{", "}">>

\* Name of the queried file and of the other files of its directory.
Filename == "a.go"

FileB == [name |-> "b.go", src |-> SrcB]

FileC == [name |-> "c.go", src |-> SrcC]

\* Tokens of the generated texts.
GenAlphabet == {"p", "v", "a", ";", " "}

\* Every text over GenAlphabet of length at most MaxLen.
Generated == UNION {[1..n -> GenAlphabet] : n \in 0..MaxLen}

\* Statements of the generated function bodies: var a; a := ...; a use of
\* a; the braces of a nested block.
Snippets == {<<"v", "a", ";">>, <<":", "a", ";">>, <<"a">>, <<"{">>, <<"}">>}

RECURSIVE Flatten(_)
Flatten(seqs) == IF seqs = <<>> THEN <<>> ELSE Head(seqs) \o Flatten(Tail(seqs))

\* Every text `p f F { body }` whose body is at most MaxStmts snippets.
GeneratedBodies ==
    {<<"p", "f", "F", "{">> \o Flatten(b) \o <<"}">> :
        b \in UNION {[1..n -> Snippets] : n \in 0..MaxStmts}}

\* Queried content and the other files of its package directory.
Inputs ==
    {[src |-> c, dir |-> <<>>] : c \in Generated \cup GeneratedBodies}
    \cup {[src |-> c, dir |-> <<>>] :
             c \in {SrcShadow, SrcShort, SrcField, SrcImport, SrcBlank,
                    SrcOrder, SrcBrace, SrcBrace2, SrcDup}}
    \cup {[src |-> SrcPkg, dir |-> d] :
             d \in {<<>>, <<FileB>>, <<FileB, FileC>>, <<FileC, FileB>>}}
    \cup {[src |-> SrcField, dir |-> <<FileC>>]}

\* ------------------------------------------------------------------------
\* DeclPosition
\* ------------------------------------------------------------------------

VARIABLES
    src,        \* content of the queried file
    dir,        \* the other files of the package directory
    index,      \* the queried byte offset
    pc,         \* position in DeclPosition
    info,       \* the Info: the files added so far, with their trees
    astFile,    \* index in info of the parsed file, 0 is nil
    tokenFile,  \* index in info of the token file, 0 is nil
    pos,        \* global position of the (clamped) offset
    indexNode,  \* the node at pos
    id,         \* indexNode as an identifier
    node,       \* the resolved, then refined, declaration node
    ret,        \* the returned (start, end, error)
    ran         \* the pipeline steps run so far

\* Two calls of DeclPosition in flight at once.
VARIABLES
    calls       \* the frame of each call: its arguments and its locals

\* The variables of the single call.
qvars == <<src, dir, index, pc, info, astFile, tokenFile, pos, indexNode, id,
           node, ret, ran>>

\* The Wayland window driver: one call of NewWindow and what follows it.
VARIABLES
    wpc,        \* position in NewWindow and the functions it calls
    win,        \* the Window: its handles, width, height, frame
    released,   \* per protocol object, the Release and Destroy calls made
    crash,      \* the panic or log.Fatal that ended the process, if any
    werr,       \* the err of _newWaylandWindow
    wret,       \* what NewWindow returned
    cb,         \* displayRoundTrip: its callback and its done flag
    pending,    \* events the compositor has still to send
    wire,       \* events received and not yet dispatched
    closes,     \* calls of Close made on the returned Window
    seen        \* history: events handled, round trips returned

wvars == <<wpc, win, released, crash, werr, wret, cb, pending, wire, closes,
           seen>>

\* No call of NewWindow is made.
WindowIdle ==
    /\ wpc = "idle"
    /\ win = <<>> /\ released = <<>> /\ crash = "" /\ werr = ""
    /\ wret = <<>> /\ cb = <<>> /\ pending = <<>> /\ wire = <<>>
    /\ closes = 0 /\ seen = <<>>

\* The variables that a single call of DeclPosition leaves alone.
others == <<calls, wvars>>

vars == <<qvars, others>>

\* The errors of DeclPosition; NoErr is the nil error.
NoErr == ""

ErrParseFile == "unable to parse file"

ErrTokenFile == "unable to get token file"

ErrIndexNode == "index node not found"

ErrNotAnId == "index not at an id node"

ErrDeclNotFound == "id decl not found"

\* A nil dereference in DeclPosition.
ErrPanic == "panic"

\* return nil, nil, err
Failure(err) == [posp |-> NoPosition, endp |-> NoPosition, err |-> err]

NoRet == Failure(NoErr)

Init ==
    /\ \E in \in Inputs :
          /\ src = in.src
          /\ dir = in.dir
          /\ index \in (0 - MaxOver)..(Len(in.src) + MaxOver)
    /\ pc = "parse"
    /\ info = <<>>
    /\ astFile = 0
    /\ tokenFile = 0
    /\ pos = 0
    /\ indexNode = NilRef
    /\ id = NilRef
    /\ node = NilRef
    /\ ret = NoRet
    /\ ran = {}
    /\ calls = <<>>
    /\ WindowIdle

\* Mutant of ParseFileStep: the nil check on astFile is missing.
ParseFileStepNoCheck ==
    /\ pc = "parse"
    /\ info' = AddFile(info, Filename, src)
    /\ astFile' = IF info'[1].ok THEN 1 ELSE 0
    /\ ran' = ran \cup {"parse"}
    /\ IF astFile' = 0
       THEN pc' = "done" /\ ret' = Failure(ErrPanic)
       ELSE pc' = "tokenFile" /\ ret' = ret
    /\ UNCHANGED <<others, src, dir, index, tokenFile, pos, indexNode, id, node>>

\* info := NewInfo(); astFile := info.ParseFile(filename, src)
ParseFileStep ==
    /\ pc = "parse"
    /\ info' = AddFile(info, Filename, src)
    /\ astFile' = IF info'[1].ok THEN 1 ELSE 0
    /\ ran' = ran \cup {"parse"}
    /\ IF astFile' = 0
       THEN pc' = "done" /\ ret' = Failure(ErrParseFile)
       ELSE pc' = "tokenFile" /\ ret' = ret
    /\ UNCHANGED <<others, src, dir, index, tokenFile, pos, indexNode, id, node>>

\* astFile.Package: the global position of the package keyword.
AstPackage(inf, f) == inf[f].base + inf[f].nodes[1].pos

\* tokenFile := info.FSet.File(astFile.Package)
TokenFileStep ==
    /\ pc = "tokenFile"
    /\ tokenFile' = FSetFile(info, AstPackage(info, astFile))
    /\ IF tokenFile' = 0
       THEN pc' = "done" /\ ret' = Failure(ErrTokenFile)
       ELSE pc' = "locate" /\ ret' = ret
    /\ UNCHANGED <<others, src, dir, index, info, astFile, pos, indexNode, id, node, ran>>

\* Mutant of LocateStep: the offset is used as given, not clamped.
LocateStepNoClamp ==
    /\ pc = "locate"
    /\ pos' = info[tokenFile].base + index
    /\ indexNode' = PosNode(info, pos')
    /\ ran' = ran \cup {"clamp", "locate"}
    /\ IF indexNode' = NilRef
       THEN pc' = "done" /\ ret' = Failure(ErrIndexNode)
       ELSE pc' = "ident" /\ ret' = ret
    /\ UNCHANGED <<others, src, dir, index, info, astFile, tokenFile, id, node>>

\* Mutant of LocateStep: only a negative offset is clamped.
LocateStepClampLow ==
    /\ pc = "locate"
    /\ pos' = info[tokenFile].base + (IF index < 0 THEN 0 ELSE index)
    /\ indexNode' = PosNode(info, pos')
    /\ ran' = ran \cup {"clamp", "locate"}
    /\ IF indexNode' = NilRef
       THEN pc' = "done" /\ ret' = Failure(ErrIndexNode)
       ELSE pc' = "ident" /\ ret' = ret
    /\ UNCHANGED <<others, src, dir, index, info, astFile, tokenFile, id, node>>

\* indexNode := info.PosNode(info.SafeOffsetPos(tokenFile, index))
LocateStep ==
    /\ pc = "locate"
    /\ pos' = SafeOffsetPos(info, tokenFile, index)
    /\ indexNode' = PosNode(info, pos')
    /\ ran' = ran \cup {"clamp", "locate"}
    /\ IF indexNode' = NilRef
       THEN pc' = "done" /\ ret' = Failure(ErrIndexNode)
       ELSE pc' = "ident" /\ ret' = ret
    /\ UNCHANGED <<others, src, dir, index, info, astFile, tokenFile, id, node>>

\* Mutant of IdentStep: any node passes for an identifier.
IdentStepNoCheck ==
    /\ pc = "ident"
    /\ id' = indexNode
    /\ pc' = "resolve"
    /\ UNCHANGED <<others, src, dir, index, info, astFile, tokenFile, pos, indexNode,
                   node, ret, ran>>

\* id, ok := indexNode.(*ast.Ident)
IdentStep ==
    /\ pc = "ident"
    /\ IF Node(info, indexNode).kind = "Ident"
       THEN id' = indexNode /\ pc' = "resolve" /\ ret' = ret
       ELSE id' = NilRef /\ pc' = "done" /\ ret' = Failure(ErrNotAnId)
    /\ UNCHANGED <<others, src, dir, index, info, astFile, tokenFile, pos, indexNode,
                   node, ran>>

\* Whether resolving id walks the scope chain (it does not for a declaring
\* occurrence, nor for the field name of a field access).
ResolveWalksScopes(inf, id_) ==
    /\ ~IsDeclaring(inf[id_.f].nodes, id_.n)
    /\ ~IsFieldOfAccess(inf[id_.f].nodes, id_.n)

\* Mutant of ResolveStep: the resolver sees the queried file only.
ResolveStepOneFile ==
    /\ pc = "resolve"
    /\ info' = info
    /\ node' = ResolveDecl(info', id)
    /\ ran' = ran \cup {"resolve"}
                  \cup (IF ResolveWalksScopes(info', id) THEN {"scopes"} ELSE {})
    /\ IF node' = NilRef
       THEN pc' = "done" /\ ret' = Failure(ErrDeclNotFound)
       ELSE pc' = "refine" /\ ret' = ret
    /\ UNCHANGED <<others, src, dir, index, astFile, tokenFile, pos, indexNode, id>>

\* Mutant of ResolveStep: the nil check on the resolved node is missing.
ResolveStepNoCheck ==
    /\ pc = "resolve"
    /\ info' = AddFiles(info, dir)
    /\ node' = ResolveDecl(info', id)
    /\ ran' = ran \cup {"resolve"}
                  \cup (IF ResolveWalksScopes(info', id) THEN {"scopes"} ELSE {})
    /\ IF node' = NilRef
       THEN pc' = "done" /\ ret' = Failure(ErrPanic)
       ELSE pc' = "refine" /\ ret' = ret
    /\ UNCHANGED <<others, src, dir, index, astFile, tokenFile, pos, indexNode, id>>

\* path := info.PosFilePath(astFile.Package); res := NewResolver(info, path, id)
\* node := res.ResolveDecl(id)
ResolveStep ==
    /\ pc = "resolve"
    /\ info' = AddFiles(info, dir)
    /\ node' = ResolveDecl(info', id)
    /\ ran' = ran \cup {"resolve"}
                  \cup (IF ResolveWalksScopes(info', id) THEN {"scopes"} ELSE {})
    /\ IF node' = NilRef
       THEN pc' = "done" /\ ret' = Failure(ErrDeclNotFound)
       ELSE pc' = "refine" /\ ret' = ret
    /\ UNCHANGED <<others, src, dir, index, astFile, tokenFile, pos, indexNode, id>>

\* The first identifier among the children of nd with the name of id_; nd
\* itself when there is none (the range loops over t.Names).
FirstNamed(inf, nd, id_) ==
    LET nodes == inf[nd.f].nodes
        Named(k) == nodes[k].name = Node(inf, id_).name
        k == FirstOf(Kids(nodes, nd.n), {kk \in Range(Kids(nodes, nd.n)) : Named(kk)})
    IN  IF k = 0 THEN nd ELSE Ref(nd.f, k)

\* Mutant of Refine: a short assignment is left unrefined.
RefineNoAssign(inf, nd, id_) ==
    LET nodes == inf[nd.f].nodes
        kind  == nodes[nd.n].kind
    IN  IF kind \in {"FuncDecl", "TypeSpec"} THEN Ref(nd.f, Kids(nodes, nd.n)[1])
        ELSE IF kind \in {"Field", "ValueSpec"} THEN FirstNamed(inf, nd, id_)
        ELSE nd

\* Mutant of Refine: a field declaration is refined to its first name.
RefineFirstField(inf, nd, id_) ==
    LET nodes == inf[nd.f].nodes
        kind  == nodes[nd.n].kind
        lhsi  == IdAssignStmtRhs(inf, id_, nd)
    IN  IF kind \in {"FuncDecl", "TypeSpec"} THEN Ref(nd.f, Kids(nodes, nd.n)[1])
        ELSE IF kind = "AssignStmt"
        THEN IF lhsi >= 0 THEN Ref(nd.f, Kids(nodes, nd.n)[lhsi + 1]) ELSE nd
        ELSE IF kind = "Field" THEN Ref(nd.f, Kids(nodes, nd.n)[1])
        ELSE IF kind = "ValueSpec" THEN FirstNamed(inf, nd, id_)
        ELSE nd

\* Mutant of Refine: a function declaration is left unrefined.
RefineNoFunc(inf, nd, id_) ==
    LET nodes == inf[nd.f].nodes
        kind  == nodes[nd.n].kind
        lhsi  == IdAssignStmtRhs(inf, id_, nd)
    IN  IF kind = "TypeSpec" THEN Ref(nd.f, Kids(nodes, nd.n)[1])
        ELSE IF kind = "AssignStmt"
        THEN IF lhsi >= 0 THEN Ref(nd.f, Kids(nodes, nd.n)[lhsi + 1]) ELSE nd
        ELSE IF kind \in {"Field", "ValueSpec"} THEN FirstNamed(inf, nd, id_)
        ELSE nd

\* The switch on the type of the resolved node.
Refine(inf, nd, id_) ==
    LET nodes == inf[nd.f].nodes
        kind  == nodes[nd.n].kind
        lhsi  == IdAssignStmtRhs(inf, id_, nd)
    IN  IF kind \in {"FuncDecl", "TypeSpec"} THEN Ref(nd.f, Kids(nodes, nd.n)[1])
        ELSE IF kind = "AssignStmt"
        THEN IF lhsi >= 0 THEN Ref(nd.f, Kids(nodes, nd.n)[lhsi + 1]) ELSE nd
        ELSE IF kind \in {"Field", "ValueSpec"} THEN FirstNamed(inf, nd, id_)
        ELSE nd

\* switch t := node.(type) { ... }
RefineStep ==
    /\ pc = "refine"
    /\ node' = Refine(info, node, id)
    /\ ran' = ran \cup {"refine"}
    /\ pc' = "position"
    /\ UNCHANGED <<others, src, dir, index, info, astFile, tokenFile, pos, indexNode,
                   id, ret>>

\* posp := info.FSet.Position(node.Pos()); endp := ...(node.End())
\* return &posp, &endp, nil
PositionStep ==
    /\ pc = "position"
    /\ ret' = [posp |-> Position(info, NodePos(info, node)),
               endp |-> Position(info, NodeEnd(info, node)),
               err  |-> NoErr]
    /\ pc' = "done"
    /\ UNCHANGED <<others, src, dir, index, info, astFile, tokenFile, pos, indexNode,
                   id, node, ran>>

Next ==
    \/ ParseFileStep
    \/ TokenFileStep
    \/ LocateStep
    \/ IdentStep
    \/ ResolveStep
    \/ RefineStep
    \/ PositionStep

Spec == Init /\ [][Next]_vars

\* ------------------------------------------------------------------------
\* Two calls of DeclPosition in flight
\* ------------------------------------------------------------------------

\* The calls.
Callers == {1, 2}

\* The arguments of the two calls: a file of a package of two files, files
\* alone (one of them declares a name that the package declares too, one
\* does not parse), at offsets on names that the package, the function body
\* and nothing declare.
PairInputs ==
    {[src |-> SrcPkg, dir |-> <<FileB>>, index |-> i] : i \in {5, 7, 12}}
    \cup {[src |-> SrcOrder, dir |-> <<>>, index |-> i] : i \in {4, 6, 15}}
    \cup {[src |-> SrcC, dir |-> <<>>, index |-> 9]}
    \cup {[src |-> SrcBrace, dir |-> <<>>, index |-> 4]}

\* The frame of a call at its entry: the arguments and the zero locals.
\* mixed records that the call made a step while the other was under way.
Frame(in) ==
    [src |-> in.src, dir |-> in.dir, index |-> in.index, pc |-> "parse",
     info |-> <<>>, astFile |-> 0, tokenFile |-> 0, pos |-> 0,
     indexNode |-> NilRef, id |-> NilRef, node |-> NilRef, ret |-> NoRet,
     mixed |-> FALSE]

\* return nil, nil, err
FrameFails(c, err) == [c EXCEPT !.pc = "done", !.ret = Failure(err)]

\* astFile := info.ParseFile(filename, src), on the Info the frame holds.
FrameParseFile(c) ==
    LET inf == AddFile(c.info, Filename, c.src)
        c1  == [c EXCEPT !.info = inf]
    IN  IF inf[Len(inf)].ok
        THEN [c1 EXCEPT !.astFile = Len(inf), !.pc = "tokenFile"]
        ELSE FrameFails(c1, ErrParseFile)

\* tokenFile := info.FSet.File(astFile.Package)
FrameTokenFile(c) ==
    LET tf == FSetFile(c.info, AstPackage(c.info, c.astFile))
    IN  IF tf = 0 THEN FrameFails(c, ErrTokenFile)
        ELSE [c EXCEPT !.tokenFile = tf, !.pc = "locate"]

\* indexNode := info.PosNode(info.SafeOffsetPos(tokenFile, index))
FrameLocate(c) ==
    LET p  == SafeOffsetPos(c.info, c.tokenFile, c.index)
        n  == PosNode(c.info, p)
        c1 == [c EXCEPT !.pos = p, !.indexNode = n]
    IN  IF n = NilRef THEN FrameFails(c1, ErrIndexNode)
        ELSE [c1 EXCEPT !.pc = "ident"]

\* id, ok := indexNode.(*ast.Ident)
FrameIdent(c) ==
    IF Node(c.info, c.indexNode).kind = "Ident"
    THEN [c EXCEPT !.id = c.indexNode, !.pc = "resolve"]
    ELSE FrameFails(c, ErrNotAnId)

\* res := NewResolver(info, path, id); node := res.ResolveDecl(id)
FrameResolve(c) ==
    LET inf == AddFiles(c.info, c.dir)
        n   == ResolveDecl(inf, c.id)
        c1  == [c EXCEPT !.info = inf, !.node = n]
    IN  IF n = NilRef THEN FrameFails(c1, ErrDeclNotFound)
        ELSE [c1 EXCEPT !.pc = "refine"]

\* switch t := node.(type) { ... }
FrameRefine(c) ==
    [c EXCEPT !.node = Refine(c.info, c.node, c.id), !.pc = "position"]

\* return &posp, &endp, nil
FramePosition(c) ==
    [c EXCEPT !.pc = "done",
              !.ret = [posp |-> Position(c.info, NodePos(c.info, c.node)),
                       endp |-> Position(c.info, NodeEnd(c.info, c.node)),
                       err  |-> NoErr]]

\* One step of DeclPosition on a frame.
StepFrame(c) ==
    CASE c.pc = "parse"     -> FrameParseFile(c)
      [] c.pc = "tokenFile" -> FrameTokenFile(c)
      [] c.pc = "locate"    -> FrameLocate(c)
      [] c.pc = "ident"     -> FrameIdent(c)
      [] c.pc = "resolve"   -> FrameResolve(c)
      [] c.pc = "refine"    -> FrameRefine(c)
      [] c.pc = "position"  -> FramePosition(c)
      [] OTHER              -> c

\* A call run alone from its entry to its return.
RECURSIVE RunFrame(_)
RunFrame(c) == IF c.pc = "done" THEN c ELSE RunFrame(StepFrame(c))

\* What DeclPosition returns for the arguments in when nothing else runs.
DeclPosition(in) == RunFrame(Frame(in)).ret

\* The other call is between its entry and its return.
UnderWay(q) == \E o \in Callers \ {q} : calls[o].pc \notin {"parse", "done"}

\* Variant of CallStep: info is one object of the package that every call
\* adds its files to, in place of the NewInfo() of each call.
CallStepShared(q) ==
    /\ calls[q].pc # "done"
    /\ LET n == StepFrame(calls[q])
       IN  calls' = [o \in Callers |->
                        IF o = q
                        THEN [n EXCEPT !.mixed = calls[q].mixed \/ UnderWay(q)]
                        ELSE [calls[o] EXCEPT !.info = n.info]]
    /\ UNCHANGED <<qvars, wvars>>

\* A step of call q: it works on the info of its own frame (info :=
\* NewInfo() at its entry) and on nothing else.
CallStep(q) ==
    /\ calls[q].pc # "done"
    /\ calls' = [calls EXCEPT
                    ![q] = [StepFrame(calls[q]) EXCEPT
                               !.mixed = calls[q].mixed \/ UnderWay(q)]]
    /\ UNCHANGED <<qvars, wvars>>

\* Both calls are entered; the single call of Spec is not made.
InitPair ==
    /\ calls \in [Callers -> {Frame(in) : in \in PairInputs}]
    /\ src = <<>> /\ dir = <<>> /\ index = 0
    /\ pc = "done"
    /\ info = <<>>
    /\ astFile = 0 /\ tokenFile = 0 /\ pos = 0
    /\ indexNode = NilRef /\ id = NilRef /\ node = NilRef
    /\ ret = NoRet
    /\ ran = {}
    /\ WindowIdle

NextPair == \E q \in Callers : CallStep(q)

SpecPair == InitPair /\ [][NextPair]_vars

\* ------------------------------------------------------------------------
\* The Wayland window driver (driver/wayland/window.go)
\* ------------------------------------------------------------------------

\* Calls of Close that the host makes on the Window it was given.
MaxCloses == 2

\* Widths and heights of the configure events: 0..MaxSize.
MaxSize == 2

\* Configure events that the compositor sends.
MaxConfigures == 2

\* Capability sets of the seat events: 0..MaxCaps.
MaxCaps == 3

\* client.SeatCapabilityPointer
SeatCapabilityPointer == 1

\* client.SeatCapabilityKeyboard
SeatCapabilityKeyboard == 2

\* The nil handle.
Nil == "nil"

\* The process runs.
NoCrash == [kind |-> "none", at |-> ""]

\* A method was called on the nil handle h: a nil dereference panics.
Panic(h) == [kind |-> "panic", at |-> h]

\* log.Fatal after the library call named what failed: os.Exit(1), no
\* deferred call runs.
FatalAt(what) == [kind |-> "fatal", at |-> what]

\* The handles that Close releases and clears, in its order.
CloseOrder ==
    <<"pointer", "keyboard", "cursorTheme", "xdgTopLevel", "xdgSurface",
      "surface", "seat", "xdgWmBase", "shm", "compositor", "registry">>

\* The sync callback of the round trip k.
Callback(k) == IF k = 1 THEN "callback1" ELSE "callback2"

\* The protocol objects: those behind the handles, the connection context
\* of the display, the callbacks of the two round trips.
Objects ==
    Range(CloseOrder) \cup {"display", "context", Callback(1), Callback(2)}

\* An image that is not there.
NilImage == [w |-> 0, h |-> 0, set |-> FALSE]

\* resize.Resize(uint(width), uint(height), img, resize.Bilinear): an image
\* of the size asked for.
Resize(width, height, img) == [w |-> width, h |-> height, set |-> TRUE]

\* win = &Window{}
ZeroWindow ==
    [pointer |-> Nil, keyboard |-> Nil, cursorTheme |-> Nil,
     xdgTopLevel |-> Nil, xdgSurface |-> Nil, surface |-> Nil, seat |-> Nil,
     xdgWmBase |-> Nil, shm |-> Nil, compositor |-> Nil, registry |-> Nil,
     display |-> Nil, width |-> 0, height |-> 0,
     frame |-> NilImage, pImage |-> NilImage]

\* What a method of Window works on: the Window, the objects' release
\* counts, and whether the process still runs.
Mach(w, r) == [win |-> w, released |-> r, crash |-> NoCrash]

Crashed(m) == m.crash.kind # "none"

\* A method call through handle h: it panics when the handle is nil.
Deref(m, h) ==
    IF ~Crashed(m) /\ m.win[h] = Nil THEN [m EXCEPT !.crash = Panic(h)] ELSE m

\* self.h.Release() or self.h.Destroy(); an error is logged only.
Release(m, h) ==
    IF Crashed(Deref(m, h)) THEN Deref(m, h)
    ELSE [m EXCEPT !.released[h] = @ + 1]

\* self.h = v
SetHandle(m, h, v) == IF Crashed(m) THEN m ELSE [m EXCEPT !.win[h] = v]

\* self.pointer.Release(); self.pointer = nil
releasePointer(m) == SetHandle(Release(m, "pointer"), "pointer", Nil)

\* self.keyboard.Release(); self.keyboard = nil
releaseKeyboard(m) == SetHandle(Release(m, "keyboard"), "keyboard", Nil)

\* if self.h != nil { self.h.Destroy(); self.h = nil }, for the handles hs
\* in turn.
RECURSIVE CloseHandles(_, _)
CloseHandles(m, hs) ==
    IF hs = <<>> THEN m
    ELSE CloseHandles(IF m.win[Head(hs)] # Nil
                      THEN SetHandle(Release(m, Head(hs)), Head(hs), Nil)
                      ELSE m,
                      Tail(hs))

\* The display at the end of Close: destroyed if set and left set, then
\* self.display.Context().Close() whether it is set or not.
CloseDisplay(m) ==
    LET m1 == IF m.win.display # Nil THEN Release(m, "display") ELSE m
        m2 == Deref(m1, "display")
    IN  IF Crashed(m2) THEN m2
        ELSE [m2 EXCEPT !.released["context"] = @ + 1]

\* func (self *Window) Close()
WindowClose(m) == CloseDisplay(CloseHandles(m, CloseOrder))

\* pointer, err := self.seat.GetPointer(); log.Fatal on err
attachPointer(m, ok) ==
    IF Crashed(Deref(m, "seat")) THEN Deref(m, "seat")
    ELSE IF ~ok THEN [m EXCEPT !.crash = FatalAt("GetPointer")]
    ELSE SetHandle(m, "pointer", "pointer")

\* keyboard, err := self.seat.GetKeyboard(); log.Fatal on err
attachKeyboard(m, ok) ==
    IF Crashed(Deref(m, "seat")) THEN Deref(m, "seat")
    ELSE IF ~ok THEN [m EXCEPT !.crash = FatalAt("GetKeyboard")]
    ELSE SetHandle(m, "keyboard", "keyboard")

\* havePointer := (e.Capabilities * uint32(client.SeatCapabilityPointer)) != 0
\* (a product of uint32; with capabilities up to MaxCaps it does not wrap)
havePointer(caps) == caps * SeatCapabilityPointer # 0

\* haveKeyboard := (e.Capabilities * uint32(client.SeatCapabilityKeyboard)) != 0
haveKeyboard(caps) == caps * SeatCapabilityKeyboard # 0

\* func (self *Window) handleSeatCapabilities(e)
handleSeatCapabilities(m, caps, ok) ==
    LET m1 == IF havePointer(caps) /\ m.win.pointer # Nil
              THEN attachPointer(m, ok) ELSE releasePointer(m)
    IN  IF Crashed(m1) THEN m1
        ELSE IF haveKeyboard(caps) /\ m1.win.keyboard # Nil
        THEN attachKeyboard(m1, ok) ELSE releaseKeyboard(m1)

\* Variant of handleToplevelConfigure: a width or height of 0 is taken.
handleToplevelConfigureNoZero(m, e) ==
    IF e.width = m.win.width /\ e.height = m.win.height THEN m
    ELSE [m EXCEPT !.win.frame = Resize(e.width, e.height, m.win.pImage),
                   !.win.width = e.width,
                   !.win.height = e.height]

\* func (self *Window) handleToplevelConfigure(e)
handleToplevelConfigure(m, e) ==
    IF e.width = 0 \/ e.height = 0 THEN m
    ELSE IF e.width = m.win.width /\ e.height = m.win.height THEN m
    ELSE [m EXCEPT !.win.frame = Resize(e.width, e.height, m.win.pImage),
                   !.win.width = e.width,
                   !.win.height = e.height]

\* The interfaces that a compositor may announce; the last is one that the
\* Window does not bind.
Interfaces == {"wl_compositor", "wl_shm", "xdg_wm_base", "wl_seat", "wl_output"}

\* The handle that handleRegistryGlobal sets for an interface.
BoundHandle(iface) ==
    CASE iface = "wl_compositor" -> "compositor"
      [] iface = "wl_shm"        -> "shm"
      [] iface = "xdg_wm_base"   -> "xdgWmBase"
      [] iface = "wl_seat"       -> "seat"
      [] OTHER                   -> ""

\* func (self *Window) handleRegistryGlobal(e): for a known interface the
\* object is made on self.display.Context() and bound through
\* self.registry (log.Fatalf on err), then stored.
handleRegistryGlobal(m, e, ok) ==
    IF BoundHandle(e.iface) = "" THEN m
    ELSE IF Crashed(Deref(Deref(m, "display"), "registry"))
    THEN Deref(Deref(m, "display"), "registry")
    ELSE IF ~ok THEN [m EXCEPT !.crash = FatalAt("Bind")]
    ELSE SetHandle(m, BoundHandle(e.iface), BoundHandle(e.iface))

\* The events.
GlobalEvent(iface) == [type |-> "global", iface |-> iface, caps |-> 0, cb |-> 0, width |-> 0, height |-> 0]

FormatEvent == [type |-> "format", iface |-> "", caps |-> 0, cb |-> 0, width |-> 0, height |-> 0]

CapabilitiesEvent(caps) == [type |-> "capabilities", iface |-> "", caps |-> caps, cb |-> 0, width |-> 0, height |-> 0]

DoneEvent(k) == [type |-> "done", iface |-> "", caps |-> 0, cb |-> k, width |-> 0, height |-> 0]

ConfigureEvent(width, height) == [type |-> "configure", iface |-> "", caps |-> 0, cb |-> 0, width |-> width, height |-> height]

\* The global events of the interfaces G, in the order of the registry.
GlobalEvents(G) ==
    LET all == <<GlobalEvent("wl_compositor"), GlobalEvent("wl_shm"),
                 GlobalEvent("xdg_wm_base"), GlobalEvent("wl_seat"),
                 GlobalEvent("wl_output")>>
        Announced(e) == e.iface \in G
    IN  SelectSeq(all, Announced)

\* Context.Dispatch hands the event to the handler set for it.
Dispatched(m, e, ok) ==
    CASE e.type = "global"       -> handleRegistryGlobal(m, e, ok)
      [] e.type = "capabilities" -> handleSeatCapabilities(m, e.caps, ok)
      [] e.type = "configure"    -> handleToplevelConfigure(m, e)
      [] OTHER                   -> m

\* What the compositor sends in answer to the requests of the handler of e:
\* the formats of a bound wl_shm, the capabilities of a bound wl_seat.
Replies(m, e, caps) ==
    IF Crashed(m) \/ e.type # "global" THEN <<>>
    ELSE IF e.iface = "wl_shm" THEN <<FormatEvent>>
    ELSE IF e.iface = "wl_seat" THEN <<CapabilitiesEvent(caps)>>
    ELSE <<>>

\* The configure event e passes both tests of handleToplevelConfigure.
Accepted(w, e) ==
    /\ e.width # 0 /\ e.height # 0
    /\ ~(e.width = w.width /\ e.height = w.height)

\* The history after the handler of e ran on the Window w.
Seen(w, e) ==
    [seen EXCEPT
        !.caps     = IF e.type = "capabilities" THEN e.caps ELSE @,
        !.events   = IF e.type = "capabilities" THEN @ + 1 ELSE @,
        !.accepted = IF e.type = "configure" /\ Accepted(w, e)
                     THEN [width |-> e.width, height |-> e.height] ELSE @,
        !.doneSeen = IF e.type = "done" THEN @ \cup {e.cb} ELSE @]

\* NewWindow has not returned.
NoReturn == [window |-> "", err |-> NoErr]

\* NewWindow is called.
InitWindow ==
    /\ wpc = "connect"
    /\ win = ZeroWindow
    /\ released = [o \in Objects |-> 0]
    /\ crash = NoCrash
    /\ werr = NoErr
    /\ wret = NoReturn
    /\ cb = [round |-> 0, done |-> FALSE]
    /\ pending = <<>>
    /\ wire = <<>>
    /\ closes = 0
    /\ seen = [caps |-> -1, events |-> 0,
               accepted |-> [width |-> 0, height |-> 0],
               doneSeen |-> {}, returned |-> {}, cfgs |-> 0]
    /\ calls = <<>>
    /\ src = <<>> /\ dir = <<>> /\ index = 0
    /\ pc = "done"
    /\ info = <<>>
    /\ astFile = 0 /\ tokenFile = 0 /\ pos = 0
    /\ indexNode = NilRef /\ id = NilRef /\ node = NilRef
    /\ ret = NoRet
    /\ ran = {}

\* A step of _newWaylandWindow: a call through the handle needs (none for
\* ""), which returns the object stored in the field sets (none for "") or
\* an err, with which _newWaylandWindow returns.
Construct(step, needs, sets, next) ==
    /\ wpc = step
    /\ \E ok \in BOOLEAN :
          IF needs # "" /\ win[needs] = Nil
          THEN /\ crash' = Panic(needs) /\ wpc' = "crashed"
               /\ win' = win /\ werr' = werr
          ELSE IF ok
          THEN /\ win' = IF sets = "" THEN win ELSE [win EXCEPT ![sets] = sets]
               /\ wpc' = next
               /\ werr' = werr /\ crash' = crash
          ELSE /\ werr' = step /\ wpc' = "close"
               /\ win' = win /\ crash' = crash
    /\ UNCHANGED <<released, wret, cb, pending, wire, closes, seen, qvars, calls>>

\* display, err := client.Connect("")
Connect == Construct("connect", "", "display", "getRegistry")

\* registry, err := display.GetRegistry(); the compositor then announces
\* its globals.  win.displayRoundTrip() follows.
GetRegistry ==
    /\ wpc = "getRegistry"
    /\ \E ok \in BOOLEAN, G \in SUBSET Interfaces :
          IF ok
          THEN /\ win' = [win EXCEPT !.registry = "registry"]
               /\ pending' = GlobalEvents(G)
               /\ cb' = [round |-> 1, done |-> FALSE]
               /\ wpc' = "sync"
               /\ werr' = werr
          ELSE /\ werr' = "getRegistry" /\ wpc' = "close"
               /\ win' = win /\ pending' = pending /\ cb' = cb
    /\ UNCHANGED <<released, crash, wret, wire, closes, seen, qvars, calls>>

\* displayRoundTrip: callback, err := self.display.Sync(); done := false;
\* callback.SetDoneHandler(...)
Sync ==
    /\ wpc = "sync"
    /\ \E ok \in BOOLEAN :
          IF ok
          THEN /\ cb' = [cb EXCEPT !.done = FALSE]
               /\ pending' = Append(pending, DoneEvent(cb.round))
               /\ wpc' = "loop"
               /\ crash' = crash
          ELSE /\ crash' = FatalAt("Sync") /\ wpc' = "crashed"
               /\ cb' = cb /\ pending' = pending
    /\ UNCHANGED <<win, released, werr, wret, wire, closes, seen, qvars, calls>>

\* The compositor sends its next event to the client.
Deliver ==
    /\ wpc # "crashed"
    /\ closes = 0
    /\ pending # <<>>
    /\ wire' = Append(wire, Head(pending))
    /\ pending' = Tail(pending)
    /\ UNCHANGED <<wpc, win, released, crash, werr, wret, cb, closes, seen, qvars, calls>>

\* displayRoundTrip: for !done { self.display.Context().Dispatch() }, one
\* turn.  A handler that panics unwinds through the deferred
\* callback.Destroy(); log.Fatal exits at once.
RoundTripDispatch ==
    /\ wpc = "loop"
    /\ ~cb.done
    /\ wire # <<>>
    /\ \E ok \in BOOLEAN, caps \in 0..MaxCaps :
          LET e == Head(wire)
              m == Dispatched(Mach(win, released), e, ok)
          IN  /\ win' = m.win
              /\ crash' = m.crash
              /\ released' = IF m.crash.kind = "panic"
                             THEN [m.released EXCEPT ![Callback(cb.round)] = @ + 1]
                             ELSE m.released
              /\ wpc' = IF Crashed(m) THEN "crashed" ELSE wpc
              /\ cb' = IF e.type = "done" /\ e.cb = cb.round
                       THEN [cb EXCEPT !.done = TRUE] ELSE cb
              /\ pending' = pending \o Replies(m, e, caps)
              /\ seen' = Seen(win, e)
    /\ wire' = Tail(wire)
    /\ UNCHANGED <<werr, wret, closes, qvars, calls>>

\* Variant of RoundTripReturn: the loop does not wait for done.
RoundTripReturnEarly ==
    /\ wpc = "loop"
    /\ released' = [released EXCEPT ![Callback(cb.round)] = @ + 1]
    /\ seen' = [seen EXCEPT !.returned = @ \cup {cb.round}]
    /\ IF cb.round = 1
       THEN wpc' = "sync" /\ cb' = [round |-> 2, done |-> FALSE]
       ELSE wpc' = "createSurface" /\ cb' = cb
    /\ UNCHANGED <<win, crash, werr, wret, pending, wire, closes, qvars, calls>>

\* displayRoundTrip: done is set, the loop ends, the deferred
\* callback.Destroy() runs and the function returns: to the second
\* displayRoundTrip after the first, to CreateSurface after the second.
RoundTripReturn ==
    /\ wpc = "loop"
    /\ cb.done
    /\ released' = [released EXCEPT ![Callback(cb.round)] = @ + 1]
    /\ seen' = [seen EXCEPT !.returned = @ \cup {cb.round}]
    /\ IF cb.round = 1
       THEN wpc' = "sync" /\ cb' = [round |-> 2, done |-> FALSE]
       ELSE wpc' = "createSurface" /\ cb' = cb
    /\ UNCHANGED <<win, crash, werr, wret, pending, wire, closes, qvars, calls>>

\* surface, err := win.compositor.CreateSurface()
CreateSurface == Construct("createSurface", "compositor", "surface", "getXdgSurface")

\* xdgSurface, err := win.xdgWmBase.GetXdgSurface(win.surface)
GetXdgSurface == Construct("getXdgSurface", "xdgWmBase", "xdgSurface", "getToplevel")

\* xdgTopLevel, err := xdgSurface.GetToplevel()
GetToplevel == Construct("getToplevel", "xdgSurface", "xdgTopLevel", "commit")

\* err = win.surface.Commit()
Commit == Construct("commit", "surface", "", "loadTheme")

\* theme, err := cursor.LoadTheme("default", 24, win.shm)
LoadTheme == Construct("loadTheme", "", "cursorTheme", "created")

\* newWaylandWindow when _newWaylandWindow returned an err: win.Close();
\* win = nil; return win, err.  NewWindow then turns to the X driver.
NewWaylandWindowFails ==
    /\ wpc = "close"
    /\ LET m == WindowClose(Mach(win, released))
       IN  /\ win' = m.win
           /\ released' = m.released
           /\ crash' = m.crash
           /\ wpc' = IF Crashed(m) THEN "crashed" ELSE "xdriver"
    /\ UNCHANGED <<werr, wret, cb, pending, wire, closes, seen, qvars, calls>>

\* NewWindow, err != nil: xwin, err2 := xdriver.NewWindow(); return nil, err
\* if err2 != nil, else return xwin, nil
XDriverNewWindow ==
    /\ wpc = "xdriver"
    /\ \E ok \in BOOLEAN :
          wret' = IF ok THEN [window |-> "x", err |-> NoErr]
                  ELSE [window |-> "none", err |-> werr]
    /\ wpc' = "returned"
    /\ UNCHANGED <<win, released, crash, werr, cb, pending, wire, closes, seen, qvars, calls>>

\* NewWindow, err == nil: return win, nil
NewWindowReturns ==
    /\ wpc = "created"
    /\ wret' = [window |-> "wayland", err |-> NoErr]
    /\ wpc' = "returned"
    /\ UNCHANGED <<win, released, crash, werr, cb, pending, wire, closes, seen, qvars, calls>>

\* The Window was returned to the host and is not closed.
Open_ == wpc = "returned" /\ wret.window = "wayland" /\ closes = 0

\* The host calls Close on the Window that NewWindow returned.
HostClose ==
    /\ wpc = "returned"
    /\ wret.window = "wayland"
    /\ closes < MaxCloses
    /\ LET m == WindowClose(Mach(win, released))
       IN  /\ win' = m.win
           /\ released' = m.released
           /\ crash' = m.crash
           /\ wpc' = IF Crashed(m) THEN "crashed" ELSE wpc
    /\ closes' = closes + 1
    /\ UNCHANGED <<werr, wret, cb, pending, wire, seen, qvars, calls>>

\* The compositor configures the toplevel.
CompositorConfigure ==
    /\ Open_
    /\ seen.cfgs < MaxConfigures
    /\ \E width \in 0..MaxSize, height \in 0..MaxSize :
          pending' = Append(pending, ConfigureEvent(width, height))
    /\ seen' = [seen EXCEPT !.cfgs = @ + 1]
    /\ UNCHANGED <<wpc, win, released, crash, werr, wret, cb, wire, closes, qvars, calls>>

\* An event is dispatched to its handler after NewWindow returned (the
\* handlers set by SetConfigureHandler and the others stay set).
EventLoopDispatch ==
    /\ Open_
    /\ wire # <<>>
    /\ \E ok \in BOOLEAN, caps \in 0..MaxCaps :
          LET e == Head(wire)
              m == Dispatched(Mach(win, released), e, ok)
          IN  /\ win' = m.win
              /\ crash' = m.crash
              /\ released' = m.released
              /\ wpc' = IF Crashed(m) THEN "crashed" ELSE wpc
              /\ pending' = pending \o Replies(m, e, caps)
              /\ seen' = Seen(win, e)
    /\ wire' = Tail(wire)
    /\ UNCHANGED <<werr, wret, cb, closes, qvars, calls>>

NextWindow ==
    \/ Connect
    \/ GetRegistry
    \/ Sync
    \/ Deliver
    \/ RoundTripDispatch
    \/ RoundTripReturn
    \/ CreateSurface
    \/ GetXdgSurface
    \/ GetToplevel
    \/ Commit
    \/ LoadTheme
    \/ NewWaylandWindowFails
    \/ XDriverNewWindow
    \/ NewWindowReturns
    \/ HostClose
    \/ CompositorConfigure
    \/ EventLoopDispatch

SpecWindow == InitWindow /\ [][NextWindow]_vars

\* The compositor sends what it has to send, and the round trip keeps
\* dispatching and returns when its loop ends.
FairWindow ==
    /\ SpecWindow
    /\ WF_vars(Deliver)
    /\ WF_vars(RoundTripDispatch)
    /\ WF_vars(RoundTripReturn)

\* ------------------------------------------------------------------------
\* Vocabulary of the properties
\* ------------------------------------------------------------------------

Done == pc = "done"

\* The call returned the span [s, e) of file and no error.
ResultIs(file, s, e) ==
    /\ ret.err = NoErr
    /\ ret.posp.Filename = file /\ ret.posp.Offset = s
    /\ ret.endp.Filename = file /\ ret.endp.Offset = e

\* The call returned the span of the identifier r.
ResultIsIdent(inf, r) ==
    /\ Node(inf, r).kind = "Ident"
    /\ ResultIs(inf[r.f].name, Node(inf, r).pos, Node(inf, r).end)

\* The files of the package, parsed afresh from the inputs.
PackageFiles == AddFiles(AddFile(<<>>, Filename, src), dir)

\* Block b holds a declaration of name that a reference at offset q sees:
\* a type declaration anywhere in b, or a value declaration or short
\* assignment of b that ends at or before q.
BlockHolds(nodes, b, name, q) ==
    \E j \in 1..Len(nodes[b].kids) :
        LET k == nodes[b].kids[j]
        IN  \/ nodes[k].kind = "TypeSpec" /\ nodes[nodes[k].kids[1]].name = name
            \/ /\ nodes[k].kind \in {"ValueSpec", "AssignStmt"}
               /\ nodes[k].end <= q
               /\ \E i \in 1..Len(nodes[k].kids) : nodes[nodes[k].kids[i]].name = name

\* The ancestors of node n in its arena.
RECURSIVE Ancestors(_, _)
Ancestors(nodes, n) ==
    IF nodes[n].parent = 0 THEN {}
    ELSE {nodes[n].parent} \cup Ancestors(nodes, nodes[n].parent)

\* The blocks around node n.
EnclosingBlocks(nodes, n) ==
    {b \in Ancestors(nodes, n) : nodes[b].kind = "BlockStmt"}

\* The identifier under the query is a plain reference: the scope chain was
\* walked for it.
Walked == Done /\ id # NilRef /\ "scopes" \in ran

\* ------------------------------------------------------------------------
\* C1
\* ------------------------------------------------------------------------

\* C1: when the node located at the clamped offset is not an Identifier,
\* neither the resolve nor the refine step runs, and the call ends with
\* "index not at an id node" and no positions.
C1_NotAnIdentifier ==
    (indexNode # NilRef /\ Node(info, indexNode).kind # "Ident") =>
        /\ "resolve" \notin ran
        /\ "refine" \notin ran
        /\ Done => ret = Failure(ErrNotAnId)

\* An offset in the blanks between two tokens ended with NotAnIdentifier.
C1_Witness ==
    /\ Done
    /\ index >= 0 /\ index < Len(src) /\ IsSpace(src[index + 1])
    /\ Len(src) > MaxLen
    /\ ret = Failure(ErrNotAnId)

\* ------------------------------------------------------------------------
\* C2
\* ------------------------------------------------------------------------

\* C2: for a content that cannot be parsed the call ends, whatever the
\* offset, with "unable to parse file" and no positions, without a panic
\* and without running the locate, resolve or refine step.
C2_ParseError ==
    (Done /\ (~Parse(src).ok \/ src \in {SrcBrace, SrcBrace2})) =>
        /\ ret = Failure(ErrParseFile)
        /\ ran = {"parse"}

\* Text with unbalanced braces, queried past its end, ended with ParseError.
C2_Witness ==
    /\ Done
    /\ src = SrcBrace
    /\ index > Len(src)
    /\ ret = Failure(ErrParseFile)

\* ------------------------------------------------------------------------
\* C3
\* ------------------------------------------------------------------------

C4_Outcomes ==
    /\ "locate" \in ran => indexNode # NilRef
    /\ ~Done => ret = NoRet
    /\ Done =>
         \/ /\ ret.err = NoErr
            /\ ret.posp # NoPosition
            /\ ret.endp # NoPosition
         \/ /\ ret.err \in {ErrParseFile, ErrNotAnId, ErrDeclNotFound}
            /\ ret.posp = NoPosition
            /\ ret.endp = NoPosition

\* A query past the end of a parsed file went through the locate step.
C4_Witness ==
    /\ Done
    /\ index > Len(src)
    /\ "locate" \in ran
    /\ indexNode # NilRef

\* ------------------------------------------------------------------------
\* C5
\* ------------------------------------------------------------------------

\* C5: the clamped offset lies in 0..size of the file; it is the offset
\* itself when that is in range, 0 when the offset is negative, size when
\* it is past the end; clamping yields no failure.
C5_Clamp ==
    "clamp" \in ran =>
        LET off  == pos - info[tokenFile].base
            size == Len(src)
        IN  /\ 0 <= off /\ off <= size
            /\ (0 <= index /\ index <= size) => off = index
            /\ index < 0 => off = 0
            /\ index > size => off = size
            /\ ret.err \notin {ErrIndexNode, ErrTokenFile, ErrPanic}

\* A negative offset was clamped to the start of the file.
C5_Witness ==
    /\ "clamp" \in ran
    /\ index < 0
    /\ pos = info[tokenFile].base

\* ------------------------------------------------------------------------
\* C6
\* ------------------------------------------------------------------------

\* C6: when the offset lands on a declaring occurrence, the returned span
\* is that identifier's own span and the scope chain is not walked.
C6_DeclaringOccurrence ==
    (Done /\ id # NilRef /\ IsDeclaring(info[id.f].nodes, id.n)) =>
        /\ ResultIsIdent(info, id)
        /\ "scopes" \notin ran

\* ------------------------------------------------------------------------
\* C7
\* ------------------------------------------------------------------------

\* C7: with nested blocks that each declare x, x used in the innermost
\* block resolves to the innermost declaration and x used outside the inner
\* blocks to the outer one.  In general a declaration found in a block is
\* one of a block around the reference, and no block nearer to the
\* reference holds the name.
C7_Shadowing ==
    /\ (Done /\ src = SrcShadow) =>
          /\ index = 15 => ResultIs(Filename, 13, 14)
          /\ index = 17 => ResultIs(Filename, 9, 10)
          /\ index = 19 => ResultIs(Filename, 5, 6)
    /\ (Walked /\ ret.err = NoErr) =>
          LET nodes == info[node.f].nodes
              decl  == nodes[node.n].parent
              blk   == IF decl = 0 THEN 0 ELSE nodes[decl].parent
              name  == Node(info, id).name
              q     == Node(info, id).pos
          IN  IF blk # 0 /\ nodes[blk].kind = "BlockStmt"
              THEN /\ node.f = id.f
                   /\ blk \in EnclosingBlocks(nodes, id.n)
                   /\ \A b \in EnclosingBlocks(nodes, id.n) :
                          blk \in Ancestors(nodes, b) => ~BlockHolds(nodes, b, name, q)
              ELSE \A b \in EnclosingBlocks(info[id.f].nodes, id.n) :
                       ~BlockHolds(info[id.f].nodes, b, name, q)

\* x used between the innermost block and the end of the middle block
\* resolved to the middle block's declaration.
C7_Witness ==
    /\ Done
    /\ src = SrcShadow
    /\ index = 17
    /\ ResultIs(Filename, 9, 10)

\* ------------------------------------------------------------------------
\* C8
\* ------------------------------------------------------------------------

\* The identifiers that declare name at the top level of the files: the
\* name of a function or type declaration, a name of a value declaration.
TopLevelIdents(files, name) ==
    {r \in UNION {{Ref(k, j) : j \in 1..Len(files[k].nodes)} : k \in 1..Len(files)} :
        LET nodes == files[r.f].nodes
            p     == nodes[r.n].parent
        IN  /\ nodes[r.n].kind = "Ident"
            /\ nodes[r.n].name = name
            /\ p # 0
            /\ nodes[p].parent = 1
            /\ \/ nodes[p].kind \in {"FuncDecl", "TypeSpec"} /\ nodes[p].kids[1] = r.n
               \/ nodes[p].kind = "ValueSpec"}

\* C8: a reference whose name no block around it and no import of its file
\* declares, and that the package declares once at the top level of one of
\* its files, resolves to that declaration, in whatever file it is and in
\* whatever order the files come.
C8_PackageWide ==
    /\ (Done /\ src = SrcPkg /\ FileC \in {dir[k] : k \in 1..Len(dir)}) =>
          (index = 9 => ResultIs("c.go", 3, 4))
    /\ (Done /\ src = SrcPkg /\ dir = <<FileB>>) =>
          /\ index = 5 => ResultIs("b.go", 2, 3)
          /\ index = 7 => ResultIs("b.go", 6, 7)
    /\ Walked =>
          LET nodes == PackageFiles[1].nodes
              name  == nodes[id.n].name
              decls == TopLevelIdents(PackageFiles, name)
          IN  (/\ \A b \in EnclosingBlocks(nodes, id.n) :
                      ~BlockHolds(nodes, b, name, nodes[id.n].pos)
               /\ FileScopeDecl(nodes, name) = 0
               /\ Cardinality(decls) = 1) =>
                  \A r \in decls : ResultIsIdent(PackageFiles, r)

\* A type declared in the second file of the directory was found from the
\* queried file.
C8_Witness ==
    /\ Done
    /\ src = SrcPkg
    /\ dir = <<FileB, FileC>>
    /\ index = 9
    /\ ResultIs("c.go", 3, 4)

\* ------------------------------------------------------------------------
\* C9
\* ------------------------------------------------------------------------

\* C9: after `a := 1`, in `a, b := 2, 3` of the same block a resolves to
\* the a of the first statement and b to the b of the second.  In general a
\* left-hand name that the block already holds at the assignment is a
\* reference, resolved through the scopes to an earlier declaration.
C9_ShortAssignment ==
    /\ (Done /\ src = SrcShort) =>
          /\ index = 9  => ResultIs(Filename, 5, 6)
          /\ index = 10 => ResultIs(Filename, 10, 11)
          /\ index = 12 => ResultIs(Filename, 5, 6)
          /\ index = 14 => ResultIs(Filename, 10, 11)
    /\ (Done /\ id # NilRef) =>
          LET nodes == info[id.f].nodes
              p     == nodes[id.n].parent
          IN  (/\ nodes[p].kind = "AssignStmt"
               /\ BlockHolds(nodes, nodes[p].parent, nodes[id.n].name, nodes[p].pos)) =>
                  /\ "scopes" \in ran
                  /\ ret.err = NoErr
                  /\ ret.endp.Offset <= nodes[p].pos

\* The a of `a, b := 2, 3` resolved to the a of `a := 1`.
C9_Witness ==
    /\ Done
    /\ src = SrcShort
    /\ index = 9
    /\ ResultIs(Filename, 5, 6)

\* ------------------------------------------------------------------------
\* C10
\* ------------------------------------------------------------------------

\* C10: with a struct type whose field list names N, the field name of an
\* access x.N resolves to the identifier N of the field list, and the
\* returned span is that identifier's span.
C10_FieldAccess ==
    /\ (Done /\ src = SrcField) =>
          (index = 17 => ResultIs(Filename, 5, 6))
    /\ (/\ Done /\ id # NilRef
        /\ IsFieldOfAccess(info[id.f].nodes, id.n)
        /\ ret.err = NoErr) =>
          LET nodes == info[node.f].nodes
              p     == nodes[node.n].parent
          IN  /\ ResultIsIdent(info, node)
              /\ nodes[node.n].name = Node(info, id).name
              /\ p # 0
              /\ nodes[p].kind = "Field"
              /\ nodes[nodes[p].parent].kind = "TypeSpec"

\* The N of x.N resolved to the second name of the field declaration a, N.
C10_Witness ==
    /\ Done
    /\ src = SrcField
    /\ index = 17
    /\ ResultIs(Filename, 5, 6)
    /\ ret.posp.Line = 1
    /\ ret.posp.Column = 6

\* ------------------------------------------------------------------------
\* C11
\* ------------------------------------------------------------------------

\* The kinds of declaration that the refiner narrows.
Refinable == {"FuncDecl", "TypeSpec", "AssignStmt", "Field", "ValueSpec"}

\* The refine step has run on the declaration that the resolver returned.
Refined == pc \in {"position", "done"} /\ "refine" \in ran

\* C11: when the resolved declaration is a function declaration, a type
\* declaration, a short assignment, a field declaration or a grouped value
\* declaration, refine returns one Identifier that is a child of that
\* declaration and whose text is the queried name: the name identifier of a
\* function or type declaration, and the first identifier with that text in
\* the name list of the others.
C11_RefineIdentifier ==
    Refined =>
        LET decl  == ResolveDecl(info, id)
            nodes == info[decl.f].nodes
            kind  == nodes[decl.n].kind
            names == Kids(nodes, decl.n)
        IN  kind \in Refinable =>
              /\ node.f = decl.f
              /\ nodes[node.n].kind = "Ident"
              /\ nodes[node.n].parent = decl.n
              /\ nodes[node.n].name = Node(info, id).name
              /\ kind \in {"FuncDecl", "TypeSpec"} => node.n = names[1]
              /\ kind \in {"AssignStmt", "Field", "ValueSpec"} =>
                    \E i \in 1..Len(names) :
                        /\ names[i] = node.n
                        /\ \A j \in 1..(i - 1) :
                              nodes[names[j]].name # nodes[node.n].name

\* The function name G, declared in another file of the package, was
\* refined from the function declaration to its name identifier.
C11_Witness ==
    /\ Done
    /\ src = SrcPkg /\ dir = <<FileB>>
    /\ index = 5
    /\ Node(info, ResolveDecl(info, id)).kind = "FuncDecl"
    /\ ResultIs("b.go", 2, 3)

\* ------------------------------------------------------------------------
\* C12
\* ------------------------------------------------------------------------

FramesAgree ==
    Done => ret = DeclPosition([src |-> src, dir |-> dir, index |-> index])

BlockHoldsType(nodes, b, name) ==
    \E j \in 1..Len(nodes[b].kids) :
        /\ nodes[nodes[b].kids[j]].kind = "TypeSpec"
        /\ nodes[nodes[nodes[b].kids[j]].kids[1]].name = name

\* C13: a value declaration or short assignment of a block is found only
\* for references that come after it: the declaration returned for a
\* reference, when it is a value declaration of a block, ends at or before
\* the reference.  A type declaration of a block around the reference and a
\* top-level declaration of the package are found whatever their place.  So
\* x used before the block's own `var x` resolves to the top-level x, not
\* to the later declaration, and x used after it resolves to the block's.
C13_TextualOrder ==
    /\ (Done /\ src = SrcOrder) =>
          /\ index = 4  => ResultIs(Filename, 18, 19)
          /\ index = 6  => ResultIs(Filename, 12, 13)
          /\ index = 15 => ResultIs(Filename, 9, 10)
    /\ (Walked /\ ret.err = NoErr) =>
          LET nodes == info[node.f].nodes
              decl  == nodes[node.n].parent
          IN  (/\ decl # 0
               /\ nodes[decl].kind \in {"ValueSpec", "AssignStmt"}
               /\ nodes[nodes[decl].parent].kind = "BlockStmt") =>
                  /\ node.f = id.f
                  /\ nodes[decl].end <= Node(info, id).pos
    /\ Walked =>
          LET nodes == PackageFiles[1].nodes
              name  == nodes[id.n].name
          IN  (\/ \E b \in EnclosingBlocks(nodes, id.n) : BlockHoldsType(nodes, b, name)
               \/ TopLevelIdents(PackageFiles, name) # {}) =>
                  ret.err = NoErr

\* x used before the `var x` of its block resolved to the top-level x,
\* which the file declares after the function.
C13_Witness ==
    /\ Done
    /\ src = SrcOrder
    /\ index = 4
    /\ "scopes" \in ran
    /\ ResultIs(Filename, 18, 19)

\* ------------------------------------------------------------------------
\* C14
\* ------------------------------------------------------------------------

\* Node k of a block names name in a declaration that a reference at offset
\* q sees.
NamesBefore(nodes, k, name, q) ==
    \/ nodes[k].kind = "TypeSpec" /\ nodes[nodes[k].kids[1]].name = name
    \/ /\ nodes[k].kind \in {"ValueSpec", "AssignStmt"}
       /\ nodes[k].end <= q
       /\ \E i \in 1..Len(nodes[k].kids) : nodes[nodes[k].kids[i]].name = name

\* C14: of two declarations of one name in one scope the first in source
\* order is returned: a declaration returned from a block has no declaration
\* of the name before it in that block, a declaration returned from the top
\* level has none before it in its file nor in a file that comes before its
\* file, and an import returned has no import of the name before it.  The
\* result is one node: one span of one file.
C14_FirstInOrder ==
    /\ (Done /\ src = SrcDup) => (index = 4 => ResultIs(Filename, 7, 8))
    /\ (Done /\ src = SrcPkg /\ index = 7) =>
          /\ dir = <<FileB, FileC>> => ResultIs("b.go", 6, 7)
          /\ dir = <<FileC, FileB>> => ResultIs("c.go", 9, 10)
    /\ (Walked /\ ret.err = NoErr) =>
          LET nodes == info[node.f].nodes
              name  == Node(info, id).name
              q     == Node(info, id).pos
              decl  == IF nodes[node.n].kind = "Ident"
                       THEN nodes[node.n].parent ELSE node.n
              scope == nodes[decl].parent
              Earlier == {k \in Range(Kids(nodes, scope)) : nodes[k].pos < nodes[decl].pos}
          IN  /\ ret.posp.Filename = info[node.f].name
              /\ ret.endp.Filename = info[node.f].name
              /\ ret.posp.Offset = nodes[node.n].pos
              /\ ret.endp.Offset = nodes[node.n].end
              /\ nodes[scope].kind = "BlockStmt" =>
                    \A k \in Earlier : ~NamesBefore(nodes, k, name, q)
              /\ (scope = 1 /\ nodes[decl].kind = "ImportSpec") =>
                    \A k \in Earlier :
                        ~(nodes[k].kind = "ImportSpec" /\ DeclName(nodes, k) = name)
              /\ (scope = 1 /\ nodes[decl].kind # "ImportSpec") =>
                    \A r \in TopLevelIdents(info, name) :
                        \/ r.f > node.f
                        \/ r.f = node.f /\ nodes[r.n].pos >= nodes[node.n].pos

\* The x that the top level of the file declares twice resolved to the
\* first declaration.
C14_Witness ==
    /\ Done
    /\ src = SrcDup
    /\ index = 4
    /\ Cardinality(TopLevelIdents(info, "x")) = 2
    /\ ResultIs(Filename, 7, 8)

\* ------------------------------------------------------------------------
\* C15
\* ------------------------------------------------------------------------

\* The handles of the Window.
Handles == Range(CloseOrder) \cup {"display"}

\* The Close of newWaylandWindow released exactly the handles that were
\* set, each once, used no nil handle, and went on to return (nil, err).
ClosedWhatWasSet ==
    /\ crash' = NoCrash
    /\ wpc' = "xdriver"
    /\ \A h \in Handles :
          released'[h] = released[h] + (IF win[h] # Nil THEN 1 ELSE 0)

\* C15: whichever step of _newWaylandWindow fails, newWaylandWindow closes
\* the partly built Window without using a nil handle, releasing the
\* handles already set and no other, and returns (nil, err): Close is safe
\* on every prefix of the handles, the empty one (display nil) included.
C15_CloseSafe == [][NewWaylandWindowFails => ClosedWhatWasSet]_vars

\* The same for the failures after the display was connected.
C15_CloseSafeConnected ==
    [][(NewWaylandWindowFails /\ win.display # Nil) => ClosedWhatWasSet]_vars

\* ------------------------------------------------------------------------
\* C16
\* ------------------------------------------------------------------------

\* The capability c is among the capabilities caps.
HasCapability(caps, c) == (caps \div c) % 2 = 1

\* C16: once handleSeatCapabilities has handled seat capability events on
\* a Window that began with no pointer and no keyboard, the pointer handle
\* is set exactly when the last event's capabilities include the pointer
\* capability, the keyboard handle exactly when they include the keyboard
\* capability, and no release was made on a handle that was nil.
C16_SeatHandles ==
    seen.caps # -1 =>
        /\ ~(crash.kind = "panic" /\ crash.at \in {"pointer", "keyboard"})
        /\ (win.pointer # Nil) <=> HasCapability(seen.caps, SeatCapabilityPointer)
        /\ (win.keyboard # Nil) <=> HasCapability(seen.caps, SeatCapabilityKeyboard)

\* ------------------------------------------------------------------------
\* C17
\* ------------------------------------------------------------------------

\* C17: over the calls of Close on a Window every protocol object behind a
\* handle (pointer, keyboard, cursor theme, xdg toplevel, xdg surface,
\* surface, seat, wm base, shm, compositor, registry, display) is released
\* or destroyed at most once.
C17_ReleasedOnce == \A h \in Handles : released[h] <= 1

\* The same for the handles that Close clears, all but the display.
C17_ClearedOnce == \A h \in Range(CloseOrder) : released[h] <= 1

\* ------------------------------------------------------------------------
\* C18
\* ------------------------------------------------------------------------

\* The step hands a toplevel configure event to its handler.
ConfigureStep == EventLoopDispatch /\ Head(wire).type = "configure"

\* What handleToplevelConfigure does with the event at the head of the wire.
ConfigureEffect ==
    LET e == Head(wire)
    IN  IF \/ e.width = 0 \/ e.height = 0
           \/ (e.width = win.width /\ e.height = win.height)
        THEN /\ win'.width = win.width
             /\ win'.height = win.height
             /\ win'.frame = win.frame
        ELSE /\ win'.width = e.width
             /\ win'.height = e.height
             /\ win'.frame = Resize(e.width, e.height, win.pImage)

\* Width and height are both 0 as at the start, or both are not 0 and are
\* those of the last event that was accepted; the frame has their size.
ConfiguredSize ==
    \/ /\ win.width = 0 /\ win.height = 0
       /\ seen.accepted = [width |-> 0, height |-> 0]
       /\ win.frame = NilImage
    \/ /\ win.width # 0 /\ win.height # 0
       /\ seen.accepted = [width |-> win.width, height |-> win.height]
       /\ win.frame = Resize(win.width, win.height, win.pImage)

C19_Fallback ==
    /\ werr # NoErr => wpc \in {"close", "xdriver", "returned"}
    /\ wpc = "returned" =>
          /\ werr = NoErr => wret = [window |-> "wayland", err |-> NoErr]
          /\ werr # NoErr =>
                \/ wret = [window |-> "x", err |-> NoErr]
                \/ wret = [window |-> "none", err |-> werr]
          /\ ~(wret.window # "none" /\ wret.err # NoErr)

\* What NewWindow returns, when it returns.
C19_WhenItReturns ==
    wpc = "returned" =>
        /\ werr = NoErr => wret = [window |-> "wayland", err |-> NoErr]
        /\ werr # NoErr =>
              \/ wret = [window |-> "x", err |-> NoErr]
              \/ wret = [window |-> "none", err |-> werr]

\* ------------------------------------------------------------------------
\* C20
\* ------------------------------------------------------------------------

\* Round trip k is in its dispatch loop.
InRoundTrip(k) == wpc = "loop" /\ cb.round = k

\* A round trip that returned had the done event of its own callback
\* dispatched; its callback was destroyed once, and a callback is destroyed
\* only by the return of its round trip or by the unwinding of a panic in
\* it.
RoundTripSafe ==
    \A k \in {1, 2} :
        /\ k \in seen.returned => k \in seen.doneSeen
        /\ k \in seen.returned => released[Callback(k)] = 1
        /\ released[Callback(k)] <= 1
        /\ released[Callback(k)] = 1 =>
              \/ k \in seen.returned
              \/ crash.kind = "panic" /\ cb.round = k

\* C20: displayRoundTrip returns only after the done event of its own sync
\* callback was dispatched, and destroys the callback once, when it
\* returns.  When the compositor delivers its events and the loop keeps
\* dispatching, a round trip that has entered its loop returns, unless a
\* handler ends the process.
C20_RoundTrip ==
    /\ []RoundTripSafe
    /\ InRoundTrip(1) ~> (1 \in seen.returned \/ wpc = "crashed")
    /\ InRoundTrip(2) ~> (2 \in seen.returned \/ wpc = "crashed")

\* The second round trip returned after the formats of the bound wl_shm
\* and then its own done event were dispatched.
C20_Witness ==
    /\ seen.returned = {1, 2}
    /\ seen.doneSeen = {1, 2}
    /\ win.shm # Nil
    /\ released[Callback(2)] = 1
    /\ wpc = "createSurface"

====
